---- MODULE Spec2Model ----
(***************************************************************************)
(* The EHR API (E_Health): users with a role, the appointment engine, the  *)
(* medical-record store and the role scoping of the viewsets.              *)
(*                                                                         *)
(* Spec         the appointment handlers; each request runs from its first  *)
(*              read to its last write as one step.                         *)
(* SpecRecords  appointments, medical records and patient profiles, for the *)
(*              role scoping of the listings.                               *)
(* SpecConc     the appointment handlers split at their store accesses: the *)
(*              read and validation of a request is one step, its write a   *)
(*              later one, and two requests may interleave.  The handlers   *)
(*              open no transaction and take no lock.                       *)
(* SpecAmend    appointments, their generic update and medical records,     *)
(*              for the records of an appointment that is rewritten.        *)
(* SpecUsers    the users as the manager created them, the requests to      *)
(*              /users/{id}/ and the permission of the dashboard.           *)
(* SpecStats    the dashboard statistics over a store of medical records.   *)
(* SpecListing  the upcoming listing over a store of appointments.          *)
(* SpecFair     Spec with the doctors' confirm and complete requests served *)
(*              fairly.                                                     *)
(***************************************************************************)
EXTENDS Integers, FiniteSets, Sequences, TLC

\* ------------------------------------------------------------------ bounds
\* timestamps are 0..MaxTime; the clock stops at MaxTime
MaxTime == 1
\* appointments ever inserted (the AutoField never reuses an id)
MaxAppts == 2
\* requests the two concurrent workers begin
MaxRequests == 3
\* medical records ever inserted
MaxRecords == 1
\* timestamps per calendar day (date_time__date)
DayLength == 2
\* medical records in the store that the dashboard of SpecStats reads
MaxDiagnosed == 6
\* appointments in the store that the listings of SpecListing read, and the
\* latest of their timestamps
MaxListed == 2
MaxListTime == 2

\* ------------------------------------------------------------------- users
\* The users of the store, by the role each was created with.
\* UserViewSet.get_permissions returns permission classes where instances are
\* expected, so no request to /users/ gets as far as its handler: the users
\* are those created outside the API.
Patients == {1, 2}
Doctors == {3, 4}
Admins == {5}
UserIds == Patients \cup Doctors \cup Admins

ROLE_CHOICES == {"patient", "doctor", "admin"}
RoleAtCreation(u) == IF u \in Patients THEN "patient"
                     ELSE IF u \in Doctors THEN "doctor" ELSE "admin"

\* CustomUserManager: is_staff is False unless the caller of the manager says
\* otherwise, and True for a superuser, whatever the role
create_user(r) == [role |-> r, is_staff |-> FALSE]
create_superuser(r) == [role |-> r, is_staff |-> TRUE]

STATUS_CHOICES == {"pending", "confirmed", "completed", "cancelled"}
\* the date_time values of requests
Times == 1..MaxTime
ApptIds == 1..MaxAppts
\* the patient_id and doctor_id values of requests: each set holds the ids of
\* the role and one id of another role
PatientIdInputs == Patients \cup {3}
DoctorIdInputs == Doctors \cup {2}

\* --------------------------------------------------------------- variables
VARIABLES
    now,        \* timezone.now()
    appts,      \* the Appointment table: id -> row, for the rows that exist
    nextApptId, \* the next AutoField value of Appointment
    records,    \* the MedicalRecord table: id -> row
    nextRecId,  \* the next AutoField value of MedicalRecord
    profiles,   \* the PatientProfile table: the user ids that have a profile
    last,       \* the response to the latest request of Spec
    reqs,       \* the latest request of each worker of SpecConc
    issued,     \* the number of requests the workers of SpecConc have begun
    users,      \* the User table: id -> [role, is_staff]
    report,     \* common_diagnoses of the latest response of the dashboard
    listed      \* the ids of the rows of the latest listing, in their order

vars == <<now, appts, nextApptId, records, nextRecId, profiles, last, reqs, issued,
          users, report, listed>>
\* what the steps of Spec leave alone
workers == <<reqs, issued>>

role(u) == users[u].role

is_patient(u) == role(u) = "patient"
is_doctor(u) == role(u) = "doctor"
is_admin(u) == role(u) = "admin"

NoResponse == [op |-> "none", caller |-> 0, id |-> 0, result |-> "none", detail |-> "none"]
Response(op, u, id, res) ==
    [op |-> op, caller |-> u, id |-> id, result |-> res, detail |-> "none"]
\* the 400 of a serializer: detail names the ValidationError that validate raised
Invalid(op, u, id, v) ==
    [op |-> op, caller |-> u, id |-> id, result |-> "bad_request", detail |-> v]

Row(p, d, t, s) == [patient |-> p, doctor |-> d, date_time |-> t, status |-> s]
NoRow == Row(0, 0, 0, "none")

\* Two requests at a time: a worker has read and validated ("validated") or has
\* answered ("done").  row is the instance the request holds in memory; conc
\* says that the request was in flight together with the other worker's; free
\* says that a create found no row at all for its (doctor, date_time).
Workers == {1, 2}
Idle == [pc |-> "idle", op |-> "none", id |-> 0, row |-> NoRow,
         result |-> "none", conc |-> FALSE, free |-> FALSE]

Init ==
    /\ now = 0
    /\ appts = <<>>
    /\ nextApptId = 1
    /\ records = <<>>
    /\ nextRecId = 1
    /\ profiles = {}
    /\ last = NoResponse
    /\ reqs = [w \in Workers |-> Idle]
    /\ issued = 0
    /\ users = [u \in UserIds |-> create_user(RoleAtCreation(u))]
    /\ report = <<>>
    /\ listed = <<>>

\* ------------------------------------------------------------------ models
\* is_upcoming with the comparison made inclusive
is_upcoming_Inclusive(a) == a.date_time >= now

is_upcoming(a) == a.date_time > now

\* can_be_cancelled without the confirmed status
can_be_cancelled_PendingOnly(a) == a.status \in {"pending"} /\ is_upcoming(a)

can_be_cancelled(a) == a.status \in {"pending", "confirmed"} /\ is_upcoming(a)

\* the table without its unique constraint
UniqueViolation_None(A, self, doctor, date_time) == FALSE

\* unique_together = ['doctor', 'date_time']: the rows other than `self` that
\* hold the pair, whatever their status
UniqueViolation(A, self, doctor, date_time) ==
    \E i \in DOMAIN A : i # self /\ A[i].doctor = doctor /\ A[i].date_time = date_time

\* ------------------------------------------------------------- serializers
\* validate with a date_time equal to the current time let through
Appointment_validate_PastOnly(A, patient_id, doctor_id, date_time) ==
    IF ~(patient_id \in UserIds /\ is_patient(patient_id)
         /\ doctor_id \in UserIds /\ is_doctor(doctor_id))
    THEN "invalid_ids"
    ELSE IF date_time < now
    THEN "past"
    ELSE IF \E i \in DOMAIN A : /\ A[i].doctor = doctor_id
                                /\ A[i].date_time = date_time
                                /\ A[i].status \in {"pending", "confirmed"}
    THEN "booked"
    ELSE "ok"

\* AppointmentSerializer.validate: the name of the failure, or "ok"
Appointment_validate(A, patient_id, doctor_id, date_time) ==
    IF ~(patient_id \in UserIds /\ is_patient(patient_id)
         /\ doctor_id \in UserIds /\ is_doctor(doctor_id))
    THEN "invalid_ids"
    ELSE IF date_time <= now
    THEN "past"
    ELSE IF \E i \in DOMAIN A : /\ A[i].doctor = doctor_id
                                /\ A[i].date_time = date_time
                                /\ A[i].status \in {"pending", "confirmed"}
    THEN "booked"
    ELSE "ok"

\* ------------------------------------------------------------------- views
\* AppointmentViewSet.get_queryset: the ids of the rows in the caller's scope
Appointment_get_queryset(A, u) ==
    IF is_admin(u) THEN DOMAIN A
    ELSE IF is_doctor(u) THEN {i \in DOMAIN A : A[i].doctor = u}
    ELSE {i \in DOMAIN A : A[i].patient = u}

\* AppointmentViewSet.perform_create: the patient of the inserted row.
\* serializer.save(patient=request.user) adds the key 'patient' to the validated
\* data, which keeps its key 'patient_id'; Model.__init__ sets the relation from
\* 'patient' and then the leftover 'patient_id' over it.
perform_create_patient(u, patient_id) ==
    LET kwargs == IF is_patient(u)
                  THEN [patient |-> u, patient_id |-> patient_id]
                  ELSE [patient_id |-> patient_id]
    IN kwargs.patient_id

SameSlot(a, b) == a.doctor = b.doctor /\ a.date_time = b.date_time

Put(A, i, row) == [j \in DOMAIN A \cup {i} |-> IF j = i THEN row ELSE A[j]]
Drop(A, i) == [j \in DOMAIN A \ {i} |-> A[j]]

Tick ==
    /\ now < MaxTime
    /\ now' = now + 1
    /\ last' = NoResponse
    /\ UNCHANGED <<appts, nextApptId, records, nextRecId, profiles, workers, users, report, listed>>

\* What a create of (patient_id, doctor_id, date_time) comes to in the current
\* store: the failure of validate, the IntegrityError of the INSERT, or "ok".
create_outcome(patient_id, doctor_id, date_time) ==
    LET v == Appointment_validate(appts, patient_id, doctor_id, date_time) IN
    IF v # "ok" THEN v
    ELSE IF UniqueViolation(appts, 0, doctor_id, date_time) THEN "integrity_error"
    ELSE "ok"

\* POST /appointments/ : CreateModelMixin.create, validate, perform_create
create(u, patient_id, doctor_id, date_time, status) ==
    /\ nextApptId <= MaxAppts
    /\ LET o == create_outcome(patient_id, doctor_id, date_time) IN
       IF o \notin {"ok", "integrity_error"}
       THEN /\ last' = Invalid("create", u, 0, o)
            /\ UNCHANGED <<appts, nextApptId>>
       ELSE IF o = "integrity_error"
       THEN /\ last' = Response("create", u, 0, "server_error")
            /\ UNCHANGED <<appts, nextApptId>>
       ELSE /\ appts' = Put(appts, nextApptId,
                            Row(perform_create_patient(u, patient_id),
                                doctor_id, date_time, status))
            /\ nextApptId' = nextApptId + 1
            /\ last' = Response("create", u, nextApptId, "ok")
    /\ UNCHANGED <<now, records, nextRecId, profiles, workers, users, report, listed>>

\* confirm without the check of the actor
confirm_check_StatusOnly(u, a) ==
    IF a.status # "pending" THEN "bad_request" ELSE "ok"

\* the checks of confirm after get_object: the name of the failure, or "ok"
confirm_check(u, a) ==
    IF ~is_doctor(u) \/ a.doctor # u THEN "forbidden"
    ELSE IF a.status # "pending" THEN "bad_request"
    ELSE "ok"

\* complete with the status tested before the actor
complete_check_StatusFirst(u, a) ==
    IF a.status # "confirmed" THEN "bad_request"
    ELSE IF ~is_doctor(u) \/ a.doctor # u THEN "forbidden"
    ELSE "ok"

complete_check(u, a) ==
    IF ~is_doctor(u) \/ a.doctor # u THEN "forbidden"
    ELSE IF a.status # "confirmed" THEN "bad_request"
    ELSE "ok"

cancel_check(u, a) ==
    IF ~(u = a.patient \/ u = a.doctor \/ is_admin(u)) THEN "forbidden"
    ELSE IF ~can_be_cancelled(a) THEN "bad_request"
    ELSE "ok"

\* a detail action that sets the status before it runs its checks
Transition_WriteFirst(op, u, id, check, to) ==
    /\ IF id \notin Appointment_get_queryset(appts, u)
       THEN /\ last' = Response(op, u, id, "not_found")
            /\ UNCHANGED appts
       ELSE /\ appts' = Put(appts, id, [appts[id] EXCEPT !.status = to])
            /\ last' = Response(op, u, id, check)
    /\ UNCHANGED <<now, nextApptId, records, nextRecId, profiles, workers, users, report, listed>>

\* a detail action that writes the status to every appointment in the scope
Transition_BulkUpdate(op, u, id, check, to) ==
    /\ IF id \notin Appointment_get_queryset(appts, u)
       THEN /\ last' = Response(op, u, id, "not_found")
            /\ UNCHANGED appts
       ELSE IF check # "ok"
       THEN /\ last' = Response(op, u, id, check)
            /\ UNCHANGED appts
       ELSE /\ appts' = [j \in DOMAIN appts |->
                            IF j \in Appointment_get_queryset(appts, u)
                            THEN [appts[j] EXCEPT !.status = to] ELSE appts[j]]
            /\ last' = Response(op, u, id, "ok")
    /\ UNCHANGED <<now, nextApptId, records, nextRecId, profiles, workers, users, report, listed>>

\* a detail action on an appointment: get_object, the action's checks, then
\* appointment.status = to; appointment.save()
Transition(op, u, id, check, to) ==
    /\ IF id \notin Appointment_get_queryset(appts, u)
       THEN /\ last' = Response(op, u, id, "not_found")
            /\ UNCHANGED appts
       ELSE IF check # "ok"
       THEN /\ last' = Response(op, u, id, check)
            /\ UNCHANGED appts
       ELSE /\ appts' = Put(appts, id, [appts[id] EXCEPT !.status = to])
            /\ last' = Response(op, u, id, "ok")
    /\ UNCHANGED <<now, nextApptId, records, nextRecId, profiles, workers, users, report, listed>>

Target(id) == IF id \in DOMAIN appts THEN appts[id] ELSE NoRow

confirm(u, id) == Transition("confirm", u, id, confirm_check(u, Target(id)), "confirmed")
complete(u, id) == Transition("complete", u, id, complete_check(u, Target(id)), "completed")
cancel(u, id) == Transition("cancel", u, id, cancel_check(u, Target(id)), "cancelled")

\* PUT /appointments/{id}/ : UpdateModelMixin.update, get_object, validate,
\* ModelSerializer.update (every validated field is written, status included)
update(u, id, patient_id, doctor_id, date_time, status) ==
    /\ LET v == Appointment_validate(appts, patient_id, doctor_id, date_time) IN
       IF id \notin Appointment_get_queryset(appts, u)
       THEN /\ last' = Response("update", u, id, "not_found")
            /\ UNCHANGED appts
       ELSE IF v # "ok"
       THEN /\ last' = Invalid("update", u, id, v)
            /\ UNCHANGED appts
       ELSE IF UniqueViolation(appts, id, doctor_id, date_time)
       THEN /\ last' = Response("update", u, id, "server_error")
            /\ UNCHANGED appts
       ELSE /\ appts' = Put(appts, id, Row(patient_id, doctor_id, date_time, status))
            /\ last' = Response("update", u, id, "ok")
    /\ UNCHANGED <<now, nextApptId, records, nextRecId, profiles, workers, users, report, listed>>

\* DELETE /appointments/{id}/ : DestroyModelMixin.destroy; the records of the
\* appointment go with it (on_delete=CASCADE)
destroy(u, id) ==
    /\ IF id \notin Appointment_get_queryset(appts, u)
       THEN /\ last' = Response("destroy", u, id, "not_found")
            /\ UNCHANGED <<appts, records>>
       ELSE /\ appts' = Drop(appts, id)
            /\ records' = [r \in {x \in DOMAIN records : records[x].appointment # id}
                             |-> records[r]]
            /\ last' = Response("destroy", u, id, "ok")
    /\ UNCHANGED <<now, nextApptId, nextRecId, profiles, workers, users, report, listed>>

Next ==
    \/ Tick
    \/ \E u \in UserIds, p \in PatientIdInputs, d \in DoctorIdInputs, t \in Times,
          s \in STATUS_CHOICES : create(u, p, d, t, s)
    \/ \E u \in UserIds, id \in ApptIds : confirm(u, id)
    \/ \E u \in UserIds, id \in ApptIds : complete(u, id)
    \/ \E u \in UserIds, id \in ApptIds : cancel(u, id)
    \/ \E u \in UserIds, id \in ApptIds, p \in PatientIdInputs, d \in DoctorIdInputs,
          t \in Times, s \in STATUS_CHOICES : update(u, id, p, d, t, s)
    \/ \E u \in UserIds, id \in ApptIds : destroy(u, id)

Spec == Init /\ [][Next]_vars

\* Spec with doctors who keep asking: a confirm or a complete of appointment
\* id that could succeed again and again is, in the end, sent and served
DoctorConfirms(id) == \E u \in Doctors : confirm(u, id) /\ last'.result = "ok"
DoctorCompletes(id) == \E u \in Doctors : complete(u, id) /\ last'.result = "ok"

SpecFair ==
    /\ Spec
    /\ \A id \in ApptIds : SF_vars(DoctorConfirms(id)) /\ SF_vars(DoctorCompletes(id))

\* ------------------------------------------- medical records and profiles
Rec(p, d, a, g) == [patient |-> p, doctor |-> d, appointment |-> a, diagnosis |-> g]
\* the diagnosis of the records that SpecRecords and SpecAmend create; their
\* handlers do not read it
DiagnosisInputs == {"flu"}
RecIds == 1..MaxRecords

\* validate without the comparison of the appointment with the ids
MedicalRecord_validate_IdsOnly(A, patient_id, doctor_id, appointment_id) ==
    IF ~(/\ patient_id \in UserIds /\ is_patient(patient_id)
         /\ doctor_id \in UserIds /\ is_doctor(doctor_id)
         /\ appointment_id \in DOMAIN A)
    THEN "invalid_ids"
    ELSE "ok"

\* validate that takes completed appointments only
MedicalRecord_validate_CompletedOnly(A, patient_id, doctor_id, appointment_id) ==
    IF ~(/\ patient_id \in UserIds /\ is_patient(patient_id)
         /\ doctor_id \in UserIds /\ is_doctor(doctor_id)
         /\ appointment_id \in DOMAIN A)
    THEN "invalid_ids"
    ELSE IF A[appointment_id].patient # patient_id \/ A[appointment_id].doctor # doctor_id
    THEN "mismatch"
    ELSE IF A[appointment_id].status # "completed"
    THEN "not_completed"
    ELSE "ok"

\* MedicalRecordSerializer.validate: the name of the failure, or "ok"
MedicalRecord_validate(A, patient_id, doctor_id, appointment_id) ==
    IF ~(/\ patient_id \in UserIds /\ is_patient(patient_id)
         /\ doctor_id \in UserIds /\ is_doctor(doctor_id)
         /\ appointment_id \in DOMAIN A)
    THEN "invalid_ids"
    ELSE IF A[appointment_id].patient # patient_id \/ A[appointment_id].doctor # doctor_id
    THEN "mismatch"
    ELSE "ok"

\* MedicalRecordViewSet.perform_create: the doctor of the inserted row.  As in
\* AppointmentViewSet.perform_create, the 'doctor_id' of the validated data is
\* set over the 'doctor' that save() was given.
perform_create_doctor(u, doctor_id) ==
    LET kwargs == IF is_doctor(u)
                  THEN [doctor |-> u, doctor_id |-> doctor_id]
                  ELSE [doctor_id |-> doctor_id]
    IN kwargs.doctor_id

\* POST /medical-records/
create_record(u, patient_id, doctor_id, appointment_id, diagnosis) ==
    /\ nextRecId <= MaxRecords
    /\ LET v == MedicalRecord_validate(appts, patient_id, doctor_id, appointment_id) IN
       IF v # "ok"
       THEN /\ last' = Invalid("create_record", u, 0, v)
            /\ UNCHANGED <<records, nextRecId>>
       ELSE /\ records' = Put(records, nextRecId,
                              Rec(patient_id, perform_create_doctor(u, doctor_id),
                                  appointment_id, diagnosis))
            /\ nextRecId' = nextRecId + 1
            /\ last' = Response("create_record", u, nextRecId, "ok")
    /\ UNCHANGED <<now, appts, nextApptId, profiles, workers, users, report, listed>>

\* POST /patient-profiles/ : PatientProfileViewSet.perform_create.  The
\* serializer has no writable user field: a patient's profile is linked to the
\* caller, any other caller's INSERT has no user and is refused by the store,
\* as is a second profile of one user (OneToOneField).
create_profile(u) ==
    /\ IF is_patient(u) /\ u \notin profiles
       THEN /\ profiles' = profiles \cup {u}
            /\ last' = Response("create_profile", u, u, "ok")
       ELSE /\ last' = Response("create_profile", u, 0, "server_error")
            /\ UNCHANGED profiles
    /\ UNCHANGED <<now, appts, nextApptId, records, nextRecId, workers, users, report, listed>>

\* MedicalRecordViewSet.get_queryset: the ids of the records in the scope
MedicalRecord_get_queryset(R, u) ==
    IF is_admin(u) THEN DOMAIN R
    ELSE IF is_doctor(u) THEN {r \in DOMAIN R : R[r].doctor = u}
    ELSE {r \in DOMAIN R : R[r].patient = u}

\* get_queryset with the cancelled appointments of a doctor left out
PatientProfile_get_queryset_ActiveOnly(A, P, u) ==
    IF is_admin(u) THEN P
    ELSE IF is_doctor(u)
    THEN LET patient_ids == {A[i].patient : i \in {j \in DOMAIN A :
                                 A[j].doctor = u /\ A[j].status # "cancelled"}}
         IN  {q \in P : q \in patient_ids}
    ELSE {q \in P : q = u}

\* PatientProfileViewSet.get_queryset: the users whose profile is in the scope
PatientProfile_get_queryset(A, P, u) ==
    IF is_admin(u) THEN P
    ELSE IF is_doctor(u)
    THEN LET patient_ids == {A[i].patient : i \in {j \in DOMAIN A : A[j].doctor = u}}
         IN  {q \in P : q \in patient_ids}
    ELSE {q \in P : q = u}

\* date_time__date
DateOf(t) == t \div DayLength

\* upcoming without the filter on the status
upcoming_AnyStatus(u) ==
    {i \in Appointment_get_queryset(appts, u) : appts[i].date_time > now}

\* AppointmentViewSet.upcoming and today, as the set of ids returned
upcoming(u) ==
    {i \in Appointment_get_queryset(appts, u) :
        appts[i].date_time > now /\ appts[i].status \in {"pending", "confirmed"}}

today(u) ==
    {i \in Appointment_get_queryset(appts, u) :
        /\ DateOf(appts[i].date_time) = DateOf(now)
        /\ appts[i].status \in {"pending", "confirmed"}}

\* The patient_id query parameter is text: `value` is the integer the store
\* reads from it, `canonical` whether the text is str(value); NoParam is the
\* request without the parameter.
NoParam == [value |-> 0, canonical |-> FALSE]
QueryParams == [value : UserIds, canonical : BOOLEAN] \cup {NoParam}

Listing(res, ids) == [result |-> res, ids |-> ids]

\* patient_history with the filter of a patient caller left out
patient_history_NoOwnerCheck(u, patient_id) ==
    IF patient_id = NoParam
    THEN Listing("bad_request", {})
    ELSE IF is_doctor(u)
    THEN LET patient_appointments ==
                 {i \in DOMAIN appts : /\ appts[i].doctor = u
                                       /\ appts[i].patient = patient_id.value}
         IN  Listing("ok", {r \in DOMAIN records :
                               /\ records[r].patient = patient_id.value
                               /\ records[r].appointment \in patient_appointments})
    ELSE Listing("ok", {r \in DOMAIN records : records[r].patient = patient_id.value})

\* MedicalRecordViewSet.patient_history: the response and the ids returned
patient_history(u, patient_id) ==
    IF patient_id = NoParam
    THEN Listing("bad_request", {})
    ELSE IF is_patient(u) /\ ~(patient_id.canonical /\ patient_id.value = u)
    THEN Listing("forbidden", {})
    ELSE IF is_doctor(u)
    THEN LET patient_appointments ==
                 {i \in DOMAIN appts : /\ appts[i].doctor = u
                                       /\ appts[i].patient = patient_id.value}
         IN  Listing("ok", {r \in DOMAIN records :
                               /\ records[r].patient = patient_id.value
                               /\ records[r].appointment \in patient_appointments})
    ELSE Listing("ok", {r \in DOMAIN records : records[r].patient = patient_id.value})

NextRecords ==
    \/ Tick
    \/ \E u \in UserIds, p \in PatientIdInputs, d \in DoctorIdInputs, t \in Times,
          s \in STATUS_CHOICES : create(u, p, d, t, s)
    \/ \E u \in UserIds, id \in ApptIds : destroy(u, id)
    \/ \E u \in UserIds, p \in PatientIdInputs, d \in DoctorIdInputs,
          a \in 1..(MaxAppts + 1), g \in DiagnosisInputs : create_record(u, p, d, a, g)
    \/ \E u \in UserIds : create_profile(u)

SpecRecords == Init /\ [][NextRecords]_vars

\* the records of appointments that the generic update rewrites
NextAmend ==
    \/ \E u \in UserIds, p \in PatientIdInputs, d \in DoctorIdInputs, t \in Times,
          s \in STATUS_CHOICES : create(u, p, d, t, s)
    \/ \E u \in UserIds, id \in ApptIds, p \in PatientIdInputs, d \in DoctorIdInputs,
          t \in Times, s \in STATUS_CHOICES : update(u, id, p, d, t, s)
    \/ \E u \in UserIds, p \in PatientIdInputs, d \in DoctorIdInputs,
          a \in 1..(MaxAppts + 1), g \in DiagnosisInputs : create_record(u, p, d, a, g)

SpecAmend == Init /\ [][NextAmend]_vars

\* ------------------------------------------------- users and the dashboard
\* get_permissions returning instances of the permission classes
get_permissions_Instances(action) ==
    [instance |-> TRUE,
     class |-> IF action \in {"create"} THEN "AllowAny"
               ELSE IF action \in {"retrieve", "update", "partial_update"}
               THEN "IsAuthenticated"
               ELSE "IsAdminUser"]

\* UserViewSet.get_permissions: the list holds the permission class itself
get_permissions(action) ==
    [instance |-> FALSE,
     class |-> IF action \in {"create"} THEN "AllowAny"
               ELSE IF action \in {"retrieve", "update", "partial_update"}
               THEN "IsAuthenticated"
               ELSE "IsAdminUser"]

\* has_permission of rest_framework.permissions; every caller is authenticated
has_permission(class, u) ==
    IF class = "AllowAny" THEN TRUE
    ELSE IF class = "IsAuthenticated" THEN u \in UserIds
    ELSE users[u].is_staff

\* APIView.check_permissions calls permission.has_permission(request, view):
\* on a class, not an instance, the call lacks an argument and raises
\* TypeError
check_permissions(permission, u) ==
    IF ~permission.instance THEN "server_error"
    ELSE IF has_permission(permission.class, u) THEN "ok"
    ELSE "forbidden"

\* GET /users/{id}/
user_retrieve(u, id) ==
    /\ LET c == check_permissions(get_permissions("retrieve"), u) IN
       IF c # "ok"
       THEN last' = Response("user_retrieve", u, id, c)
       ELSE IF u # id /\ ~is_admin(u)
       THEN last' = Response("user_retrieve", u, id, "forbidden")
       ELSE last' = Response("user_retrieve", u, id, "ok")
    /\ UNCHANGED <<now, appts, nextApptId, records, nextRecId, profiles, workers,
                   users, report, listed>>

\* PUT /users/{id}/ : UserViewSet.update, then UpdateModelMixin.update with
\* UserSerializer, which leaves role writable
user_update(u, id, r) ==
    /\ LET c == check_permissions(get_permissions("update"), u) IN
       IF c # "ok"
       THEN /\ last' = Response("user_update", u, id, c)
            /\ UNCHANGED users
       ELSE IF u # id /\ ~is_admin(u)
       THEN /\ last' = Response("user_update", u, id, "forbidden")
            /\ UNCHANGED users
       ELSE /\ users' = [users EXCEPT ![id].role = r]
            /\ last' = Response("user_update", u, id, "ok")
    /\ UNCHANGED <<now, appts, nextApptId, records, nextRecId, profiles, workers, report, listed>>

\* values('diagnosis').annotate(count=Count('diagnosis')): one row for each
\* diagnosis text, with the number of records that hold it
annotate(R) ==
    {[diagnosis |-> g, count |-> Cardinality({r \in DOMAIN R : R[r].diagnosis = g})] :
        g \in {R[r].diagnosis : r \in DOMAIN R}}

\* order_by('-count'): the orders the rows may come in.  The query names no
\* second key, so among the rows of the highest count that are left the store
\* chooses the next one.
RECURSIVE order_by(_)
order_by(rows) ==
    IF rows = {} THEN {<<>>}
    ELSE LET first == {r \in rows : \A q \in rows : r.count >= q.count}
         IN  UNION {{<<r>> \o s : s \in order_by(rows \ {r})} : r \in first}

\* [:5]
TopN == 5
Slice(s) == SubSeq(s, 1, IF Len(s) < TopN THEN Len(s) ELSE TopN)

\* the query without its slice
common_diagnoses_Unsliced(R) == order_by(annotate(R))

\* the lists that common_diagnoses may be for the records R
common_diagnoses(R) == {Slice(s) : s \in order_by(annotate(R))}

\* GET /dashboard/stats/ : permission_classes = [IsAdminUser], instantiated by
\* APIView.get_permissions
stats(u) ==
    /\ LET c == check_permissions([instance |-> TRUE, class |-> "IsAdminUser"], u) IN
       IF c # "ok"
       THEN /\ last' = Response("stats", u, 0, c)
            /\ report' = <<>>
       ELSE /\ last' = Response("stats", u, 0, "ok")
            /\ report' \in common_diagnoses(records)
    /\ UNCHANGED <<now, appts, nextApptId, records, nextRecId, profiles, workers, users, listed>>

\* the users as the manager may have created them: each with create_user or
\* with create_superuser
InitUsers ==
    /\ now = 0
    /\ appts = <<>>
    /\ nextApptId = 1
    /\ records = <<>>
    /\ nextRecId = 1
    /\ profiles = {}
    /\ last = NoResponse
    /\ reqs = [w \in Workers |-> Idle]
    /\ issued = 0
    /\ users \in [UserIds -> {create_user(r) : r \in ROLE_CHOICES}
                               \cup {create_superuser(r) : r \in ROLE_CHOICES}]
    /\ \A u \in UserIds : users[u].role = RoleAtCreation(u)
    /\ report = <<>>
    /\ listed = <<>>

NextUsers ==
    \/ \E u \in UserIds, id \in UserIds : user_retrieve(u, id)
    \/ \E u \in UserIds, id \in UserIds, r \in ROLE_CHOICES : user_update(u, id, r)
    \/ \E u \in UserIds : stats(u)

SpecUsers == InitUsers /\ [][NextUsers]_vars

\* the diagnosis texts of the records of SpecStats
DiagnosisTexts == <<"flu", "cold", "asthma", "angina", "gout", "mumps">>

\* A store with one appointment and up to MaxDiagnosed records of it, in the
\* order of their creation; record k holds one of the first k texts.  The
\* admin is a superuser.
InitStats ==
    /\ now = 0
    /\ appts = <<Row(1, 3, 1, "pending")>>
    /\ nextApptId = 2
    /\ \E n \in 0..MaxDiagnosed :
         \E g \in [1..n -> 1..Len(DiagnosisTexts)] :
            /\ \A k \in 1..n : g[k] <= k
            /\ records = [k \in 1..n |-> Rec(1, 3, 1, DiagnosisTexts[g[k]])]
            /\ nextRecId = n + 1
    /\ profiles = {}
    /\ last = NoResponse
    /\ reqs = [w \in Workers |-> Idle]
    /\ issued = 0
    /\ users = [u \in UserIds |-> IF u \in Admins
                                   THEN create_superuser(RoleAtCreation(u))
                                   ELSE create_user(RoleAtCreation(u))]
    /\ report = <<>>
    /\ listed = <<>>

NextStats == \E u \in UserIds : stats(u)

SpecStats == InitStats /\ [][NextStats]_vars

\* ---------------------------------------------------------------- listings
\* order_by('date_time'): the orders the rows `ids` may come in; rows of one
\* date_time come in an order that the store chooses
RECURSIVE order_by_date_time(_)
order_by_date_time(ids) ==
    IF ids = {} THEN {<<>>}
    ELSE LET first == {i \in ids : \A j \in ids : appts[i].date_time <= appts[j].date_time}
         IN  UNION {{<<i>> \o s : s \in order_by_date_time(ids \ {i})} : i \in first}

\* GET /appointments/upcoming/
list_upcoming(u) ==
    /\ listed' \in order_by_date_time(upcoming(u))
    /\ last' = Response("upcoming", u, 0, "ok")
    /\ UNCHANGED <<now, appts, nextApptId, records, nextRecId, profiles, workers,
                   users, report>>

\* the rows a create may have stored
Rows == {Row(p, d, t, s) : p \in Patients, d \in Doctors, t \in 1..MaxListTime,
                           s \in STATUS_CHOICES}

\* A store of up to MaxListed appointments, no two of one doctor at one
\* date_time, at any time of the clock.
InitListing ==
    /\ now \in 0..MaxListTime
    /\ \E n \in 0..MaxListed :
         /\ appts \in [1..n -> Rows]
         /\ nextApptId = n + 1
    /\ \A i, j \in DOMAIN appts : i # j => ~SameSlot(appts[i], appts[j])
    /\ records = <<>>
    /\ nextRecId = 1
    /\ profiles = {}
    /\ last = NoResponse
    /\ reqs = [w \in Workers |-> Idle]
    /\ issued = 0
    /\ users = [u \in UserIds |-> create_user(RoleAtCreation(u))]
    /\ report = <<>>
    /\ listed = <<>>

NextListing == \E u \in UserIds : list_upcoming(u)

SpecListing == InitListing /\ [][NextListing]_vars

\* -------------------------------------------------- interleaved requests
\* The same handlers, cut where they reach the store.  Neither the views nor
\* the serializers open a transaction or lock a row, so between the read of a
\* request and its write the other worker may read and write.
Other(w) == CHOOSE x \in Workers : x # w

InFlightCreates == Cardinality({w \in Workers : reqs[w].pc = "validated" /\ reqs[w].op = "create"})

\* worker w takes a request and answers it before any write
Answer(w, op, id, row, res, free) ==
    /\ reqs' = [reqs EXCEPT ![w] = [pc |-> "done", op |-> op, id |-> id, row |-> row,
                                    result |-> res, conc |-> FALSE, free |-> free]]
    /\ issued' = issued + 1

\* worker w takes a request and holds `row` to write; it overlaps the request
\* of the other worker when that one has read and not yet written
Hold(w, op, id, row, free) ==
    LET o == Other(w)
        both == reqs[o].pc = "validated"
    IN  /\ reqs' = [reqs EXCEPT
                      ![w] = [pc |-> "validated", op |-> op, id |-> id, row |-> row,
                              result |-> "none", conc |-> both, free |-> free],
                      ![o].conc = @ \/ both]
        /\ issued' = issued + 1

CanBegin(w) == reqs[w].pc # "validated" /\ issued < MaxRequests

\* AppointmentSerializer.validate of a create
begin_create(w, u, patient_id, doctor_id, date_time, status) ==
    /\ CanBegin(w)
    /\ nextApptId + InFlightCreates <= MaxAppts
    /\ LET v == Appointment_validate(appts, patient_id, doctor_id, date_time)
           row == Row(perform_create_patient(u, patient_id), doctor_id, date_time, status)
           free == ~UniqueViolation(appts, 0, doctor_id, date_time)
       IN  IF v # "ok"
           THEN Answer(w, "create", 0, Row(0, doctor_id, date_time, "none"), v, free)
           ELSE Hold(w, "create", 0, row, free)
    /\ UNCHANGED <<now, appts, nextApptId, records, nextRecId, profiles, last, users, report, listed>>

\* perform_create: the INSERT
commit_create(w) ==
    /\ reqs[w].pc = "validated"
    /\ reqs[w].op = "create"
    /\ LET row == reqs[w].row IN
       IF UniqueViolation(appts, 0, row.doctor, row.date_time)
       THEN /\ reqs' = [reqs EXCEPT ![w].pc = "done", ![w].result = "server_error"]
            /\ UNCHANGED <<appts, nextApptId>>
       ELSE /\ appts' = Put(appts, nextApptId, row)
            /\ nextApptId' = nextApptId + 1
            /\ reqs' = [reqs EXCEPT ![w].pc = "done", ![w].result = "ok",
                                    ![w].id = nextApptId]
    /\ UNCHANGED <<now, records, nextRecId, profiles, last, issued, users, report, listed>>

\* get_object and the checks of a detail action
BeginTransition(w, op, u, id, check, to) ==
    /\ CanBegin(w)
    /\ IF id \notin Appointment_get_queryset(appts, u)
       THEN Answer(w, op, id, NoRow, "not_found", FALSE)
       ELSE IF check # "ok"
       THEN Answer(w, op, id, NoRow, check, FALSE)
       ELSE Hold(w, op, id, [appts[id] EXCEPT !.status = to], FALSE)
    /\ UNCHANGED <<now, appts, nextApptId, records, nextRecId, profiles, last, users, report, listed>>

begin_confirm(w, u, id) ==
    BeginTransition(w, "confirm", u, id, confirm_check(u, Target(id)), "confirmed")
begin_complete(w, u, id) ==
    BeginTransition(w, "complete", u, id, complete_check(u, Target(id)), "completed")
begin_cancel(w, u, id) ==
    BeginTransition(w, "cancel", u, id, cancel_check(u, Target(id)), "cancelled")

\* appointment.save(): the UPDATE of every column from the instance in memory
commit_save(w) ==
    /\ reqs[w].pc = "validated"
    /\ reqs[w].op \in {"confirm", "complete", "cancel"}
    /\ LET row == reqs[w].row
           id == reqs[w].id
       IN  IF UniqueViolation(appts, id, row.doctor, row.date_time)
           THEN /\ reqs' = [reqs EXCEPT ![w].pc = "done", ![w].result = "server_error"]
                /\ UNCHANGED appts
           ELSE /\ appts' = Put(appts, id, row)
                /\ reqs' = [reqs EXCEPT ![w].pc = "done", ![w].result = "ok"]
    /\ UNCHANGED <<now, nextApptId, records, nextRecId, profiles, last, issued, users, report, listed>>

NextConc ==
    \/ Tick
    \/ \E w \in Workers, u \in UserIds, p \in PatientIdInputs, d \in DoctorIdInputs,
          t \in Times, s \in STATUS_CHOICES : begin_create(w, u, p, d, t, s)
    \/ \E w \in Workers : commit_create(w)
    \/ \E w \in Workers, u \in UserIds, id \in ApptIds : begin_confirm(w, u, id)
    \/ \E w \in Workers, u \in UserIds, id \in ApptIds : begin_complete(w, u, id)
    \/ \E w \in Workers, u \in UserIds, id \in ApptIds : begin_cancel(w, u, id)
    \/ \E w \in Workers : commit_save(w)

SpecConc == Init /\ [][NextConc]_vars

\* ------------------------------------------------------------------ claims
Live == DOMAIN appts
Kept == DOMAIN appts \cap DOMAIN appts'

\* C1: for every doctor D and timestamp T at most one appointment with
\* doctor = D and date_time = T has a status other than cancelled.
C1_NoDoubleBooking ==
    \A i \in Live, j \in Live :
        (/\ i # j
         /\ appts[i].doctor = appts[j].doctor
         /\ appts[i].date_time = appts[j].date_time)
        => (appts[i].status = "cancelled" \/ appts[j].status = "cancelled")

\* a create whose slot held a completed appointment got past validate and
\* was refused by the unique constraint
C1_Witness ==
    /\ last.op = "create"
    /\ last.result = "server_error"
    /\ \E i \in Live : appts[i].status = "completed"

\* the two latest requests were in flight together
Overlapped == \A w \in Workers : reqs[w].pc = "done" /\ reqs[w].conc

\* C2: two creates for the same (doctor, date_time) that overlap, each with a
\* valid patient, doctor and date_time and with no appointment at the slot
\* when it was validated: exactly one succeeds and exactly one appointment is
\* stored for the slot.
C2_ConcurrentCreateOneWinner ==
    (/\ Overlapped
     /\ \A w \in Workers : /\ reqs[w].op = "create"
                           /\ reqs[w].free
                           /\ reqs[w].result \notin {"invalid_ids", "past"}
     /\ SameSlot(reqs[1].row, reqs[2].row))
    => /\ Cardinality({w \in Workers : reqs[w].result = "ok"}) = 1
       /\ Cardinality({i \in Live : SameSlot(appts[i], reqs[1].row)}) = 1

\* both creates passed validate; the INSERT of the second was refused
C2_Witness ==
    /\ Overlapped
    /\ \A w \in Workers : reqs[w].op = "create" /\ reqs[w].free
    /\ SameSlot(reqs[1].row, reqs[2].row)
    /\ reqs[1].result = "server_error"
    /\ reqs[2].result = "ok"
    /\ appts[reqs[2].id] = reqs[2].row

StatusSetBy(op) ==
    IF op = "confirm" THEN "confirmed"
    ELSE IF op = "complete" THEN "completed" ELSE "cancelled"

\* C5: a confirm and a cancel, or a complete and a cancel, of the same
\* appointment that overlap do not both succeed, and the status the appointment
\* ends with is the one the successful request set.
C5_ConcurrentTransitionsExclusive ==
    (/\ Overlapped
     /\ reqs[1].id = reqs[2].id
     /\ {reqs[1].op, reqs[2].op} \in {{"confirm", "cancel"}, {"complete", "cancel"}})
    => LET won == {w \in Workers : reqs[w].result = "ok"}
       IN  /\ Cardinality(won) <= 1
           /\ \A w \in won : appts[reqs[w].id].status = StatusSetBy(reqs[w].op)

\* C6: whatever a patient lists (appointments, upcoming, today, medical
\* records, patient profiles, the history of any patient_id) belongs to that
\* patient.
C6_PatientSeesOnlyOwn ==
    \A u \in Patients :
        /\ \A i \in Appointment_get_queryset(appts, u) \cup upcoming(u) \cup today(u) :
               appts[i].patient = u
        /\ \A r \in MedicalRecord_get_queryset(records, u) : records[r].patient = u
        /\ \A q \in PatientProfile_get_queryset(appts, profiles, u) : q = u
        /\ \A q \in QueryParams :
               \A r \in patient_history(u, q).ids : records[r].patient = u

\* a patient with an appointment, a record and a profile to list, in a store
\* that holds an appointment and a profile of the other patient
C6_Witness ==
    \E u \in Patients, o \in Patients :
        /\ o # u
        /\ upcoming(u) # {}
        /\ today(u) # {}
        /\ MedicalRecord_get_queryset(records, u) # {}
        /\ patient_history(u, [value |-> u, canonical |-> TRUE]).ids # {}
        /\ patient_history(u, [value |-> o, canonical |-> TRUE]).result = "forbidden"
        /\ PatientProfile_get_queryset(appts, profiles, u) = {u}
        /\ o \in profiles
        /\ \E i \in Live : appts[i].patient = o

LegalStep(before, after) ==
    \/ after = before
    \/ before = "pending" /\ after = "confirmed"
    \/ before = "confirmed" /\ after = "completed"
    \/ before \in {"pending", "confirmed"} /\ after = "cancelled"

\* C3: in every step the status of every appointment is unchanged or moves
\* pending->confirmed, confirmed->completed or {pending,confirmed}->cancelled.
C3_OnlyLegalTransitions ==
    [][\A i \in Kept : LegalStep(appts[i].status, appts'[i].status)]_vars

\* C4: a completed or cancelled appointment keeps its status in every later
\* state.
C4_TerminalIsFinal ==
    [][\A i \in Kept : appts[i].status \in {"completed", "cancelled"}
                          => appts'[i].status = appts[i].status]_vars

\* C7: a confirm, complete or cancel that fails leaves the whole store as it
\* was.
C7_FailureChangesNothing ==
    [][(last'.op \in {"confirm", "complete", "cancel"} /\ last'.result # "ok")
         => /\ appts' = appts
            /\ nextApptId' = nextApptId
            /\ records' = records
            /\ nextRecId' = nextRecId
            /\ profiles' = profiles]_vars

\* a confirm of an appointment in the caller's scope that is not pending
C7_Witness ==
    /\ last.op = "confirm"
    /\ last.result = "bad_request"
    /\ last.id \in Live
    /\ appts[last.id].status = "completed"

\* C8: confirm succeeds only for the assigned doctor on a pending appointment
\* and sets confirmed; complete succeeds only for the assigned doctor on a
\* confirmed appointment and sets completed; every other actor is refused.
C8_Step(op, from, to) ==
    LET u == last'.caller
        i == last'.id
    IN  (last'.op = op) =>
            /\ (last'.result = "ok") =>
                    /\ i \in Kept
                    /\ is_doctor(u)
                    /\ appts[i].doctor = u
                    /\ appts[i].status = from
                    /\ appts'[i].status = to
            /\ (i \in Live /\ appts[i].doctor # u) =>
                    /\ last'.result \in {"not_found", "forbidden"}
                    /\ appts' = appts

C8_ConfirmCompleteByAssignedDoctor ==
    [][C8_Step("confirm", "pending", "confirmed")
       /\ C8_Step("complete", "confirmed", "completed")]_vars

C8_Witness ==
    /\ last.op = "complete"
    /\ last.result = "ok"
    /\ appts[last.id].doctor = last.caller

\* C9: cancel on an appointment whose date_time is not after the current time
\* fails and leaves the status as it was.
C9_NoCancelOfPast ==
    [][(/\ last'.op = "cancel"
        /\ last'.id \in Live
        /\ appts[last'.id].date_time <= now)
         => /\ last'.result # "ok"
            /\ last'.id \in Kept
            /\ appts'[last'.id].status = appts[last'.id].status]_vars

C9_Witness ==
    /\ last.op = "cancel"
    /\ last.result = "bad_request"
    /\ last.id \in Live
    /\ appts[last.id].status \in {"pending", "confirmed"}
    /\ appts[last.id].date_time <= now
    /\ last.caller = appts[last.id].patient

\* C10: cancel succeeds exactly when the actor is the appointment's patient,
\* its assigned doctor or an admin, the status is pending or confirmed and
\* date_time is in the future; it then sets cancelled.
C10_CancelExactlyWhen ==
    [][(last'.op = "cancel") =>
         LET u == last'.caller
             i == last'.id
         IN  /\ (last'.result = "ok") <=>
                    /\ i \in Live
                    /\ (u = appts[i].patient \/ u = appts[i].doctor \/ is_admin(u))
                    /\ appts[i].status \in {"pending", "confirmed"}
                    /\ appts[i].date_time > now
             /\ (last'.result = "ok") =>
                    (i \in Kept /\ appts'[i].status = "cancelled")]_vars

\* a confirmed appointment cancelled by an admin
C10_Witness ==
    /\ last.op = "cancel"
    /\ last.result = "ok"
    /\ is_admin(last.caller)
    /\ appts[last.id].status = "cancelled"
    /\ \E j \in Live : appts[j].status = "confirmed"

\* C11: the creation of a medical record for (patient_id, doctor_id,
\* appointment_id) fails and stores no record whenever the appointment's
\* patient is not patient_id or its doctor is not doctor_id: a creation that
\* stores a record stores the ids of its appointment, and one that fails
\* stores nothing.
C11_MismatchRefused ==
    [][(last'.op = "create_record") =>
         IF last'.result = "ok"
         THEN LET r == records'[last'.id]
              IN  /\ last'.id \notin DOMAIN records
                  /\ r.appointment \in Live
                  /\ appts[r.appointment].patient = r.patient
                  /\ appts[r.appointment].doctor = r.doctor
         ELSE /\ records' = records
              /\ nextRecId' = nextRecId]_vars

\* a doctor's creation with valid ids that do not match the appointment
C11_Witness ==
    /\ last.op = "create_record"
    /\ last.detail = "mismatch"
    /\ is_doctor(last.caller)
    /\ records = <<>>

\* C12: in every reachable state every stored medical record has the patient
\* and the doctor of its appointment.
C12_RecordMatchesAppointment ==
    \A r \in DOMAIN records :
        /\ records[r].appointment \in Live
        /\ appts[records[r].appointment].patient = records[r].patient
        /\ appts[records[r].appointment].doctor = records[r].doctor

\* C13: a create with a valid patient, doctor and date_time fails with
\* DoubleBooked exactly when an appointment that is not cancelled holds the
\* (doctor, date_time), and goes through otherwise, a cancelled appointment at
\* the slot included.
C13_DoubleBookedExactlyWhenOccupied ==
    \A p \in Patients, d \in Doctors, t \in Times :
        (t > now) =>
            create_outcome(p, d, t) =
                IF \E i \in Live : /\ appts[i].doctor = d
                                   /\ appts[i].date_time = t
                                   /\ appts[i].status # "cancelled"
                THEN "booked" ELSE "ok"

\* C14: a create fails and adds no appointment when patient_id is not a
\* patient, when doctor_id is not a doctor, or when date_time is not strictly
\* later than the current time (date_time equal to now is refused).
C14_InvalidCreateRefused ==
    /\ [](\A p \in PatientIdInputs, d \in DoctorIdInputs, t \in Times :
            (~is_patient(p) \/ ~is_doctor(d) \/ t <= now)
                => create_outcome(p, d, t) \in {"invalid_ids", "past"})
    /\ [][(last'.op = "create") =>
            IF last'.result = "ok"
            THEN /\ last'.id \notin Live
                 /\ is_patient(appts'[last'.id].patient)
                 /\ is_doctor(appts'[last'.id].doctor)
                 /\ appts'[last'.id].date_time > now
            ELSE /\ appts' = appts
                 /\ nextApptId' = nextApptId]_vars

\* a create whose date_time is the current time, refused with the store empty
C14_Witness ==
    /\ last.op = "create"
    /\ last.detail = "past"
    /\ now = 1
    /\ appts = <<>>

\* the actors a detail action accepts, and the appointments it refuses for
\* their state
Permitted(op, u, a) ==
    IF op = "cancel" THEN u = a.patient \/ u = a.doctor \/ is_admin(u)
    ELSE is_doctor(u) /\ a.doctor = u

Illegal(op, a) ==
    IF op = "confirm" THEN a.status # "pending"
    ELSE IF op = "complete" THEN a.status # "confirmed"
    ELSE ~(a.status \in {"pending", "confirmed"} /\ a.date_time > now)

\* C15: a confirm, complete or cancel of an appointment that is outside the
\* caller's scope, or whose caller is not a permitted actor, and whose
\* transition is illegal from the current status as well, fails with the
\* access failure (NotFound, Forbidden) and never with InvalidTransition.
C15_ScopeBeforeState ==
    [][LET op == last'.op
           u == last'.caller
           i == last'.id
       IN  (/\ op \in {"confirm", "complete", "cancel"}
            /\ i \in Live
            /\ Illegal(op, appts[i])
            /\ (i \notin Appointment_get_queryset(appts, u) \/ ~Permitted(op, u, appts[i])))
           => /\ last'.result = IF i \in Appointment_get_queryset(appts, u)
                                THEN "forbidden" ELSE "not_found"
              /\ appts' = appts]_vars

\* a doctor's confirm of a cancelled appointment of another doctor
C15_Witness ==
    /\ last.op = "confirm"
    /\ last.result = "not_found"
    /\ is_doctor(last.caller)
    /\ last.id \in Live
    /\ appts[last.id].doctor # last.caller
    /\ appts[last.id].status = "cancelled"

\* C16: the history of patient P is all of P's records for patient P and for
\* an admin, exactly those of P's records whose appointment is with the
\* requester for a doctor, and Forbidden for a patient other than P.
C16_PatientHistory ==
    \A u \in UserIds, P \in Patients :
        LET h == patient_history(u, [value |-> P, canonical |-> TRUE])
            ofP == {r \in DOMAIN records : records[r].patient = P}
        IN  IF is_patient(u) /\ u # P
            THEN h.result = "forbidden"
            ELSE IF is_doctor(u)
            THEN h = Listing("ok", {r \in ofP : /\ records[r].appointment \in Live
                                                /\ appts[records[r].appointment].doctor = u})
            ELSE h = Listing("ok", ofP)

\* C17: a user's role never changes after the user is created: whatever the
\* requests, updates of the user record by the user or by an admin included,
\* the role in every state is the role at creation.
C17_RoleNeverChanges ==
    \A u \in UserIds : users[u].role = RoleAtCreation(u)

\* an admin who is staff has sent an update of another user's record
C17_Witness ==
    /\ last.op = "user_update"
    /\ is_admin(last.caller)
    /\ users[last.caller].is_staff
    /\ last.id # last.caller

\* C18: no operation removes an appointment: the set of appointment ids in
\* the store never shrinks.
C18_NoAppointmentRemoved ==
    [][DOMAIN appts \subseteq DOMAIN appts']_vars

\* C19: the dashboard statistics are served only to callers whose role is
\* admin: a patient or a doctor is refused and every admin is served.
C19_StatsForAdminsOnly ==
    (last.op = "stats") => (last.result = "ok" <=> is_admin(last.caller))

\* the number of records with the diagnosis text g, and the first of them
Occurrences(g) == Cardinality({r \in DOMAIN records : records[r].diagnosis = g})
FirstSeen(g) == CHOOSE r \in DOMAIN records :
                    /\ records[r].diagnosis = g
                    /\ \A q \in DOMAIN records : records[q].diagnosis = g => r <= q
Texts == {records[r].diagnosis : r \in DOMAIN records}
Shown == IF Cardinality(Texts) < 5 THEN Cardinality(Texts) ELSE 5

\* the diagnosis texts that come before g by count, then by first occurrence
Ahead(g) ==
    {h \in Texts : \/ Occurrences(h) > Occurrences(g)
                   \/ Occurrences(h) = Occurrences(g) /\ FirstSeen(h) < FirstSeen(g)}

\* C20 as stated: top5_diagnoses groups the records by exact diagnosis text,
\* counts each group, orders the groups by count descending with ties broken
\* by the first occurrence of the text, and returns the first 5.
C20_TopFiveFirstSeen ==
    (last.op = "stats" /\ last.result = "ok") =>
        /\ Len(report) = Shown
        /\ \A k \in 1..Len(report) :
              /\ report[k].diagnosis \in Texts
              /\ report[k].count = Occurrences(report[k].diagnosis)
              /\ Cardinality(Ahead(report[k].diagnosis)) = k - 1

\* C20 amended: top5_diagnoses groups the records by exact diagnosis text,
\* counts each group, orders the groups by count descending, groups of equal
\* count in any order, and returns the first 5: no group left out has more
\* records than one returned; for flu, flu, cold it is flu with 2 then cold
\* with 1.
C20_TopFiveByCount ==
    (last.op = "stats" /\ last.result = "ok") =>
        /\ Len(report) = Shown
        /\ \A k \in 1..Len(report) :
              /\ report[k].diagnosis \in Texts
              /\ report[k].count = Occurrences(report[k].diagnosis)
        /\ \A i, j \in 1..Len(report) :
              i < j => /\ report[i].diagnosis # report[j].diagnosis
                       /\ report[i].count >= report[j].count
        /\ \A g \in Texts \ {report[k].diagnosis : k \in 1..Len(report)} :
              Occurrences(g) <= report[Len(report)].count
        /\ ([k \in DOMAIN records |-> records[k].diagnosis] = <<"flu", "flu", "cold">>)
              => report = <<[diagnosis |-> "flu", count |-> 2],
                            [diagnosis |-> "cold", count |-> 1]>>

\* six diagnosis texts, five of them returned, and two groups of equal count
\* returned against the order of their first occurrence
C20_Witness ==
    /\ last.op = "stats"
    /\ last.result = "ok"
    /\ Cardinality(Texts) = 6
    /\ Len(report) = 5
    /\ \E i, j \in 1..Len(report) :
          /\ i < j
          /\ report[i].count = report[j].count
          /\ FirstSeen(report[i].diagnosis) > FirstSeen(report[j].diagnosis)

\* C21: the upcoming listing of a caller holds exactly the appointments of the
\* caller's role scope whose date_time is after the current time and whose
\* status is pending or confirmed, each once, ordered by date_time ascending.
C21_UpcomingListing ==
    (last.op = "upcoming") =>
        LET u == last.caller
            scope == {i \in Live : \/ is_admin(u)
                                    \/ (is_doctor(u) /\ appts[i].doctor = u)
                                    \/ (is_patient(u) /\ appts[i].patient = u)}
        IN  /\ {listed[k] : k \in 1..Len(listed)} =
                    {i \in scope : /\ appts[i].date_time > now
                                   /\ appts[i].status \in {"pending", "confirmed"}}
            /\ \A j, k \in 1..Len(listed) :
                    j < k => /\ listed[j] # listed[k]
                             /\ appts[listed[j]].date_time <= appts[listed[k]].date_time

\* a doctor's two upcoming appointments, the later one created first
C21_Witness ==
    /\ last.op = "upcoming"
    /\ is_doctor(last.caller)
    /\ Len(listed) = 2
    /\ listed[1] > listed[2]
    /\ appts[listed[1]].date_time < appts[listed[2]].date_time

\* C22: reading or updating the user record /users/{id} succeeds only when
\* the caller is that user or an admin; any other authenticated caller gets
\* Forbidden and the user record is unchanged.
C22_OwnRecordOrAdmin ==
    [][(last'.op \in {"user_retrieve", "user_update"}) =>
         LET u == last'.caller
             allowed == u = last'.id \/ is_admin(u)
         IN  /\ (last'.result = "ok") => allowed
             /\ ~allowed => (last'.result = "forbidden" /\ users' = users)]_vars

\* C23: an appointment is pending when it is created, whatever the request
\* carries, and its status changes afterwards only as the effect of a
\* successful confirm, complete or cancel of that appointment.
C23_StatusOnlyByTransitions ==
    [][/\ \A i \in DOMAIN appts' \ DOMAIN appts : appts'[i].status = "pending"
       /\ \A i \in Kept :
             appts'[i].status # appts[i].status
                => /\ last'.op \in {"confirm", "complete", "cancel"}
                   /\ last'.result = "ok"
                   /\ last'.id = i]_vars

\* C24: when the caller of a create has the role patient, the patient of the
\* stored appointment is the caller, whatever patient_id the request supplies.
C24_PatientCreatesForSelf ==
    [][(/\ last'.op = "create"
        /\ last'.result = "ok"
        /\ is_patient(last'.caller))
         => appts'[last'.id].patient = last'.caller]_vars

\* C25: the patient profiles visible to a doctor are exactly the profiles of
\* the patients who have at least one appointment with that doctor, whatever
\* its status, cancelled included.
C25_DoctorSeesProfilesOfOwnPatients ==
    \A u \in Doctors :
        PatientProfile_get_queryset(appts, profiles, u) =
            {q \in profiles : \E i \in Live : appts[i].doctor = u /\ appts[i].patient = q}

\* a doctor whose only appointment is cancelled sees the profile of its
\* patient and not the profile of the other patient
C25_Witness ==
    \E u \in Doctors, q \in Patients, o \in Patients :
        /\ o # q
        /\ {q, o} \subseteq profiles
        /\ \E i \in Live : appts[i].doctor = u /\ appts[i].patient = q
        /\ \A i \in Live : appts[i].doctor = u => appts[i].status = "cancelled"
        /\ \A i \in Live : appts[i].patient = o => appts[i].doctor # u
        /\ PatientProfile_get_queryset(appts, profiles, u) = {q}

\* C26: the creation of a medical record succeeds for a matching (patient,
\* doctor, appointment), whatever the status of the appointment, and leaves
\* every appointment as it was.
C26_RecordForAnyStatus ==
    /\ [](\A p \in PatientIdInputs, d \in DoctorIdInputs, a \in Live :
            (/\ is_patient(p) /\ is_doctor(d)
             /\ appts[a].patient = p /\ appts[a].doctor = d)
                => MedicalRecord_validate(appts, p, d, a) = "ok")
    /\ [][(last'.op = "create_record") =>
            /\ appts' = appts
            /\ nextApptId' = nextApptId
            /\ (last'.result = "ok") =>
                   /\ DOMAIN records' = DOMAIN records \cup {last'.id}
                   /\ last'.id \notin DOMAIN records]_vars

\* a record stored for a cancelled appointment
C26_Witness ==
    /\ last.op = "create_record"
    /\ last.result = "ok"
    /\ appts[records[last.id].appointment].status = "cancelled"

\* C27: a successful confirm, complete or cancel changes only the status of
\* the appointment it names: the patient, doctor and date_time of that
\* appointment, every other appointment, every medical record and every user
\* are as they were.
C27_TransitionChangesStatusOnly ==
    [][(last'.op \in {"confirm", "complete", "cancel"} /\ last'.result = "ok") =>
         LET i == last'.id
         IN  /\ DOMAIN appts' = DOMAIN appts
             /\ i \in Live
             /\ appts'[i] = [appts[i] EXCEPT !.status = StatusSetBy(last'.op)]
             /\ \A j \in Live \ {i} : appts'[j] = appts[j]
             /\ nextApptId' = nextApptId
             /\ records' = records
             /\ nextRecId' = nextRecId
             /\ profiles' = profiles
             /\ users' = users]_vars

\* a cancel by a patient who has another appointment, which is still pending
C27_Witness ==
    /\ last.op = "cancel"
    /\ last.result = "ok"
    /\ is_patient(last.caller)
    /\ \E j \in Live : /\ j # last.id
                        /\ appts[j].patient = last.caller
                        /\ appts[j].status = "pending"

\* C28: no appointment is stuck in a status that is not terminal: with the
\* assigned doctor's confirm and complete requests served fairly, every
\* appointment that is pending or confirmed is completed or cancelled in the
\* end.
C28_EventuallyTerminal ==
    \A i \in ApptIds :
        (i \in Live /\ appts[i].status \in {"pending", "confirmed"})
            ~> (i \in Live /\ appts[i].status \in {"completed", "cancelled"})

====
